---------------------------- MODULE Spec2Model ----------------------------
(***************************************************************************)
(* A model of nvim-doc-tools: the block extractor (parse_functions), the   *)
(* annotation and type grammars (apidoc.py, built from pyparsing           *)
(* combinators) and the renderers (apidoc.py, markdown.py).                *)
(*                                                                         *)
(* Text is modelled as TLA+ strings, character by character: a location    *)
(* is the 1-based index of the next character to read, so Len(s) + 1 is    *)
(* the end of the text.  A grammar element is an operator taking (s, i)    *)
(* and returning a record with ok = FALSE, or ok = TRUE, the location loc  *)
(* behind the match and what the element's parse action produced.          *)
(***************************************************************************)
EXTENDS Integers, Sequences, FiniteSets, TLC

(***************************************************************************)
(* Characters and strings                                                  *)
(***************************************************************************)

Lower == {"a", "b", "c", "d", "e", "f", "g", "h", "i", "j", "k", "l", "m",
          "n", "o", "p", "q", "r", "s", "t", "u", "v", "w", "x", "y", "z"}

Upper == {"A", "B", "C", "D", "E", "F", "G", "H", "I", "J", "K", "L", "M",
          "N", "O", "P", "Q", "R", "S", "T", "U", "V", "W", "X", "Y", "Z"}

Digits == {"0", "1", "2", "3", "4", "5", "6", "7", "8", "9"}

\* pyparsing.alphas
alphas == Lower \cup Upper

\* pyparsing.alphanums
alphanums == alphas \cup Digits

\* The body characters of varname, and the regular expressions' \w
WordChars == alphanums \cup {"_"}

\* Keyword.DEFAULT_KEYWORD_CHARS: a keyword is not matched next to these
IdentChars == alphanums \cup {"_", "$"}

\* ParserElement.setDefaultWhitespaceChars(" \t"): what an element skips
\* before it matches
DefaultWhite == {" ", "\t"}

\* The characters White() matches (its default ws argument)
WhiteChars == {" ", "\t", "\r", "\n"}

\* The character of s at location i, "" outside the text
Ch(s, i) == IF 1 <= i /\ i <= Len(s) THEN SubSeq(s, i, i) ELSE ""

\* s[i:] of Python, for a 1-based i
From(s, i) == IF i > Len(s) THEN "" ELSE SubSeq(s, i, Len(s))

\* s.startswith(lit, i)
StartsWith(s, i, lit) ==
    /\ i >= 1
    /\ i + Len(lit) - 1 <= Len(s)
    /\ SubSeq(s, i, i + Len(lit) - 1) = lit

\* The location behind the longest run of characters of set starting at i
RECURSIVE SkipChars(_, _, _)
SkipChars(s, i, set) ==
    IF Ch(s, i) \in set THEN SkipChars(s, i + 1, set) ELSE i

\* ParserElement.preParse of an element that skips whitespace
PreParse(s, i) == SkipChars(s, i, DefaultWhite)

Fail == [ok |-> FALSE]

\* Literal.parseImpl
Literal(s, i, lit) ==
    IF StartsWith(s, i, lit)
    THEN [ok |-> TRUE, loc |-> i + Len(lit), val |-> lit]
    ELSE Fail

\* Keyword.parseImpl: the literal, with no identifier character on either side
Keyword(s, i, kw) ==
    IF /\ StartsWith(s, i, kw)
       /\ Ch(s, i - 1) \notin IdentChars
       /\ Ch(s, i + Len(kw)) \notin IdentChars
    THEN [ok |-> TRUE, loc |-> i + Len(kw), val |-> kw]
    ELSE Fail

\* White(): one or more whitespace characters, line breaks included
White(s, i) ==
    LET j == SkipChars(s, i, WhiteChars)
    IN  IF j > i THEN [ok |-> TRUE, loc |-> j, val |-> SubSeq(s, i, j - 1)]
        ELSE Fail

\* Opt(White()): it skips nothing before it matches, and matches nothing
\* where there is no whitespace
OptWhite(s, i) ==
    LET w == White(s, i)
    IN  IF w.ok THEN w ELSE [ok |-> TRUE, loc |-> i, val |-> ""]

\* The location behind the rest of the line (the line break excluded)
RECURSIVE LineRest(_, _)
LineRest(s, i) ==
    IF Ch(s, i) \in {"", "\n"} THEN i ELSE LineRest(s, i + 1)

\* Regex(".+"): the rest of the line, which must not be empty
RegexRest(s, i) ==
    LET j == LineRest(s, i)
    IN  IF j > i THEN [ok |-> TRUE, loc |-> j, val |-> SubSeq(s, i, j - 1)]
        ELSE Fail

\* Opt(Regex(".+")): whitespace is skipped first, also when nothing follows
OptRegexRest(s, i) ==
    LET p == PreParse(s, i)
        r == RegexRest(s, p)
    IN  IF r.ok THEN r ELSE [ok |-> TRUE, loc |-> p, val |-> ""]

\* LineEnd.parseImpl (behind skipped blanks): a line break, or the end of
\* the text, met once
LineEnd(s, i) ==
    LET p == PreParse(s, i)
    IN  IF Ch(s, p) = "\n" THEN [ok |-> TRUE, loc |-> p + 1, val |-> "\n"]
        ELSE IF p = Len(s) + 1 THEN [ok |-> TRUE, loc |-> p + 1, val |-> ""]
        ELSE Fail

\* LineStart.parseImpl: col(loc, instring) == 1
LineStart(s, i) ==
    IF i = 1 \/ (i >= 2 /\ i <= Len(s) + 1 /\ Ch(s, i - 1) = "\n")
    THEN [ok |-> TRUE, loc |-> i]
    ELSE Fail

(***************************************************************************)
(* The type grammar (apidoc.py, lua_type)                                  *)
(***************************************************************************)

\* varname = Word(alphas, alphanums + "_"), at the location itself
varname(s, i) ==
    IF Ch(s, i) \in alphas
    THEN LET j == SkipChars(s, i + 1, WordChars)
         IN  [ok |-> TRUE, loc |-> j, val |-> SubSeq(s, i, j - 1)]
    ELSE Fail

\* The first of two results that matched (MatchFirst, the | of the grammar)
OrElse(a, b) == IF a.ok THEN a ELSE b

\* A sequence of the grammar (And, the + of the grammar): what K makes of
\* the result r, when r matched
Then(r, K(_)) == IF r.ok THEN K(r) ELSE Fail

\* K of the value v
With(v, K(_)) == K(v)

\* QuotedString('"', unquote_results=False): a quoted literal on one line,
\* kept with its quotes
QuotedString(s, i) ==
    IF Ch(s, i) = "\""
    THEN LET j == SkipChars(s, i + 1,
                            {Ch(s, k) : k \in i + 1 .. Len(s)} \ {"\"", "\n", "\r"})
         IN  IF Ch(s, j) = "\""
             THEN [ok |-> TRUE, loc |-> j + 1, val |-> SubSeq(s, i, j)]
             ELSE Fail
    ELSE Fail

\* Regex(r"\w+\.[\w]+(\[\])?"): a qualified name, with an optional []
QualifiedName(s, i) ==
    LET j == SkipChars(s, i, WordChars)
        k == SkipChars(s, j + 1, WordChars)
        e == IF StartsWith(s, k, "[]") THEN k + 2 ELSE k
    IN  IF j > i /\ Ch(s, j) = "." /\ k > j + 1
        THEN [ok |-> TRUE, loc |-> e, val |-> SubSeq(s, i, e - 1)]
        ELSE Fail

primitive_type(s, i) ==
    LET p == PreParse(s, i)
    IN  OrElse(Keyword(s, p, "nil"),
        OrElse(Keyword(s, p, "string"),
        OrElse(Keyword(s, p, "integer"),
        OrElse(Keyword(s, p, "boolean"),
        OrElse(Keyword(s, p, "number"),
        OrElse(Keyword(s, p, "table"),
        OrElse(QuotedString(s, p),
        OrElse(Keyword(s, p, "any"),
               QualifiedName(s, p)))))))))

lua_list(s, i) ==
    LET p == PreParse(s, i)
    IN  OrElse(Keyword(s, p, "string[]"),
        OrElse(Keyword(s, p, "integer[]"),
        OrElse(Keyword(s, p, "number[]"),
        OrElse(Keyword(s, p, "any[]"),
               Keyword(s, p, "boolean[]")))))

RECURSIVE lua_type(_, _)
RECURSIVE non_union_types(_, _)

\* A table type joined with a blank of its own behind the comma (excluded by
\* CanonicalIsFixed)
TableAddsBlank(s, i) ==
    Then(Keyword(s, PreParse(s, i), "table"), LAMBDA kw :
    Then(Literal(s, PreParse(s, kw.loc), "<"), LAMBDA lt :
    Then(lua_type(s, lt.loc), LAMBDA k :
    Then(Literal(s, PreParse(s, k.loc), ","), LAMBDA comma :
    Then(OptWhite(s, comma.loc), LAMBDA w :
    Then(lua_type(s, w.loc), LAMBDA v :
    Then(Literal(s, PreParse(s, v.loc), ">"), LAMBDA gt :
        [ok |-> TRUE, loc |-> gt.loc,
         val |-> "table<" \o k.val \o ", " \o w.val \o v.val \o ">"])))))))

\* Keyword("table") + "<" + lua_type + "," + Opt(White()) + lua_type + ">",
\* its tokens joined
lua_table(s, i) ==
    Then(Keyword(s, PreParse(s, i), "table"), LAMBDA kw :
    Then(Literal(s, PreParse(s, kw.loc), "<"), LAMBDA lt :
    Then(lua_type(s, lt.loc), LAMBDA k :
    Then(Literal(s, PreParse(s, k.loc), ","), LAMBDA comma :
    Then(OptWhite(s, comma.loc), LAMBDA w :
    Then(lua_type(s, w.loc), LAMBDA v :
    Then(Literal(s, PreParse(s, v.loc), ">"), LAMBDA gt :
        [ok |-> TRUE, loc |-> gt.loc,
         val |-> "table<" \o k.val \o "," \o w.val \o v.val \o ">"])))))))

\* Opt(White()) + varname + ":" + Opt(White()) + lua_type + Opt(White()),
\* its tokens joined; inside the combined list nothing skips whitespace but
\* lua_type itself
lua_func_param(s, i) ==
    Then(OptWhite(s, i), LAMBDA w1 :
    Then(varname(s, w1.loc), LAMBDA n :
    Then(Literal(s, n.loc, ":"), LAMBDA c :
    Then(OptWhite(s, c.loc), LAMBDA w2 :
    Then(lua_type(s, w2.loc), LAMBDA t :
    Then(OptWhite(s, t.loc), LAMBDA w3 :
        [ok |-> TRUE, loc |-> w3.loc,
         val |-> w1.val \o n.val \o ":" \o w2.val \o t.val \o w3.val]))))))

\* The ZeroOrMore("," + lua_func_param) of delimitedList(..., combine=True)
RECURSIVE lua_func_params_rest(_, _, _)
lua_func_params_rest(s, i, acc) ==
    OrElse(Then(Literal(s, i, ","), LAMBDA c :
           Then(lua_func_param(s, c.loc), LAMBDA p :
               lua_func_params_rest(s, p.loc, acc \o "," \o p.val))),
           [ok |-> TRUE, loc |-> i, val |-> acc])

\* Opt(delimitedList(lua_func_param, combine=True))
lua_func_params(s, i) ==
    OrElse(Then(lua_func_param(s, i), LAMBDA p :
               lua_func_params_rest(s, p.loc, p.val)),
           [ok |-> TRUE, loc |-> i, val |-> ""])

\* Opt(":" + Opt(White()) + lua_type)
lua_func_return(s, i) ==
    OrElse(Then(Literal(s, PreParse(s, i), ":"), LAMBDA c :
           Then(OptWhite(s, c.loc), LAMBDA w :
           Then(lua_type(s, w.loc), LAMBDA t :
               [ok |-> TRUE, loc |-> t.loc, val |-> ":" \o w.val \o t.val]))),
           [ok |-> TRUE, loc |-> PreParse(s, i), val |-> ""])

\* Keyword("fun") + "(" + Opt(params) + ")" + Opt(return), its tokens joined
lua_func(s, i) ==
    Then(Keyword(s, PreParse(s, i), "fun"), LAMBDA kw :
    Then(Literal(s, PreParse(s, kw.loc), "("), LAMBDA lp :
    Then(lua_func_params(s, lp.loc), LAMBDA ps :
    Then(Literal(s, PreParse(s, ps.loc), ")"), LAMBDA rp :
    Then(lua_func_return(s, rp.loc), LAMBDA r :
        [ok |-> TRUE, loc |-> r.loc,
         val |-> "fun(" \o ps.val \o ")" \o r.val])))))

\* non_union_types = lua_list | lua_table | lua_func | primitive_type
non_union_types(s, i) ==
    OrElse(lua_list(s, i),
    OrElse(lua_table(s, i),
    OrElse(lua_func(s, i),
           primitive_type(s, i))))

\* The ZeroOrMore(Suppress("|") + non_union_types) of delimitedList, with the
\* parse action's "|".join: matched is FALSE until a member has matched, and
\* a repetition that matched nothing has still skipped the blanks before it
RECURSIVE union_rest(_, _, _, _)

\* A union that leaves out a member equal to all that was joined before it
\* (excluded by UnionKeepsMembers)
UnionDropsRepeat(s, i, acc, matched) ==
    OrElse(Then(Literal(s, PreParse(s, i), "|"), LAMBDA bar :
           Then(non_union_types(s, bar.loc), LAMBDA t :
               union_rest(s, t.loc,
                          IF t.val = acc THEN acc ELSE acc \o "|" \o t.val,
                          TRUE))),
           [ok |-> TRUE, loc |-> IF matched THEN i ELSE PreParse(s, i),
            val |-> acc])

union_rest(s, i, acc, matched) ==
    OrElse(Then(Literal(s, PreParse(s, i), "|"), LAMBDA bar :
           Then(non_union_types(s, bar.loc), LAMBDA t :
               union_rest(s, t.loc, acc \o "|" \o t.val, TRUE))),
           [ok |-> TRUE, loc |-> IF matched THEN i ELSE PreParse(s, i),
            val |-> acc])

\* union_type = delimitedList(non_union_types, delim="|"), joined with "|"
union_type(s, i) ==
    Then(non_union_types(s, i), LAMBDA t : union_rest(s, t.loc, t.val, FALSE))

\* lua_type <<= union_type | non_union_types
lua_type(s, i) == OrElse(union_type(s, i), non_union_types(s, i))

(***************************************************************************)
(* The annotation grammar (apidoc.py, annotation)                          *)
(***************************************************************************)

\* LuaParam.from_parser
LuaParam(name, type, desc, subparams) ==
    [name |-> name, type |-> type, desc |-> desc, subparams |-> subparams]

\* LuaReturn.from_parser: the type, and the rest of the tokens joined
LuaReturn(type, desc) == [type |-> type, desc |-> desc]

\* summary = Regex(r"^[^@].+") + Suppress(LineEnd()): "^" matches at the
\* start of the text only, and [^@] matches a line break too
summary(s, i) ==
    LET j == LineRest(s, i + 1)
        e == LineEnd(s, j)
    IN  IF i = 1 /\ Ch(s, 1) \notin {"", "@"} /\ j > i + 1 /\ e.ok
        THEN [ok |-> TRUE, loc |-> e.loc, val |-> SubSeq(s, 1, j - 1)]
        ELSE Fail

\* <name> <type> [desc] and the end of the line, shared by subparam and
\* tag_param: varname + lua_type + Opt(Regex(".+")) + Suppress(LineEnd())
param_line(s, i) ==
    Then(varname(s, PreParse(s, i)), LAMBDA n :
    Then(lua_type(s, n.loc), LAMBDA t :
    Then(OptRegexRest(s, t.loc), LAMBDA d :
    Then(LineEnd(s, d.loc), LAMBDA e :
        [ok |-> TRUE, loc |-> e.loc,
         val |-> LuaParam(n.val, t.val, d.val, <<>>)]))))

\* subparam: Suppress(LineStart()) + Suppress(White()) + the parameter line.
\* Neither LineStart nor White skips anything before it matches.
subparam(s, i) ==
    Then(LineStart(s, i), LAMBDA ls :
    Then(White(s, ls.loc), LAMBDA w : param_line(s, w.loc)))

\* ZeroOrMore(subparam)
RECURSIVE subparams(_, _, _)
subparams(s, i, acc) ==
    OrElse(Then(subparam(s, i), LAMBDA p :
               subparams(s, p.loc, Append(acc, p.val))),
           [ok |-> TRUE, loc |-> i, val |-> acc])

\* tag_param: a LuaParam with the sub-parameters that follow it
tag_param(s, i) ==
    Then(Literal(s, PreParse(s, i), "@param"), LAMBDA at :
    Then(param_line(s, at.loc), LAMBDA p :
    Then(subparams(s, p.loc, <<>>), LAMBDA sp :
        [ok |-> TRUE, loc |-> sp.loc,
         val |-> LuaParam(p.val.name, p.val.type, p.val.desc, sp.val)])))

\* Keyword(kw) + Suppress(LineEnd()): tag_private and tag_deprecated
flag_tag(s, i, kw) ==
    Then(Keyword(s, PreParse(s, i), kw), LAMBDA k :
    Then(LineEnd(s, k.loc), LAMBDA e : [ok |-> TRUE, loc |-> e.loc]))

tag_private(s, i) == flag_tag(s, i, "@private")

tag_deprecated(s, i) == flag_tag(s, i, "@deprecated")

\* tag_return: a LuaReturn
tag_return(s, i) ==
    Then(Literal(s, PreParse(s, i), "@return"), LAMBDA at :
    Then(lua_type(s, at.loc), LAMBDA t :
    Then(OptRegexRest(s, t.loc), LAMBDA d :
    Then(LineEnd(s, d.loc), LAMBDA e :
        [ok |-> TRUE, loc |-> e.loc, val |-> LuaReturn(t.val, d.val)]))))

\* One line of an example or note:
\* LineStart() + Suppress(White(max=1)) + Opt(White()) + Regex(r".+") + LineEnd()
text_line(s, i) ==
    IF ~(LineStart(s, i).ok /\ Ch(s, i) \in WhiteChars) THEN Fail ELSE
    Then(OptWhite(s, i + 1), LAMBDA w :
    Then(RegexRest(s, PreParse(s, w.loc)), LAMBDA r :
    Then(LineEnd(s, r.loc), LAMBDA e :
        [ok |-> TRUE, loc |-> e.loc, val |-> w.val \o r.val \o e.val])))

\* The rest of OneOrMore(text line), its tokens joined
RECURSIVE text_lines(_, _, _)
text_lines(s, i, acc) ==
    OrElse(Then(text_line(s, i), LAMBDA l :
               text_lines(s, l.loc, acc \o l.val)),
           [ok |-> TRUE, loc |-> i, val |-> acc])

\* Suppress(kw + LineEnd()) + OneOrMore(text line): tag_example and tag_note
text_tag(s, i, kw) ==
    Then(Literal(s, PreParse(s, i), kw), LAMBDA at :
    Then(LineEnd(s, at.loc), LAMBDA e :
    Then(text_line(s, e.loc), LAMBDA l : text_lines(s, l.loc, l.val))))

tag_example(s, i) == text_tag(s, i, "@example")

tag_note(s, i) == text_tag(s, i, "@note")

\* What parse_annotation builds when no tag has been read
EmptyFunc(name) ==
    [name |-> name, summary |-> "", params |-> <<>>, returns |-> <<>>,
     example |-> "", note |-> "", private |-> FALSE, deprecated |-> FALSE]

\* tag <<= tag_param | tag_private | tag_return | tag_example | tag_note
\*         | tag_deprecated
\* applied to the function read so far: a LuaParam or LuaReturn is added
\* behind those read before, a named result replaces the one of that name.
tag(s, i, f) ==
    OrElse(Then(tag_param(s, i), LAMBDA pa :
        [ok |-> TRUE, loc |-> pa.loc,
         val |-> [f EXCEPT !.params = Append(@, pa.val)]]),
    OrElse(Then(tag_private(s, i), LAMBDA pr :
        [ok |-> TRUE, loc |-> pr.loc, val |-> [f EXCEPT !.private = TRUE]]),
    OrElse(Then(tag_return(s, i), LAMBDA re :
        [ok |-> TRUE, loc |-> re.loc,
         val |-> [f EXCEPT !.returns = Append(@, re.val)]]),
    OrElse(Then(tag_example(s, i), LAMBDA ex :
        [ok |-> TRUE, loc |-> ex.loc, val |-> [f EXCEPT !.example = ex.val]]),
    OrElse(Then(tag_note(s, i), LAMBDA no :
        [ok |-> TRUE, loc |-> no.loc, val |-> [f EXCEPT !.note = no.val]]),
           Then(tag_deprecated(s, i), LAMBDA de :
        [ok |-> TRUE, loc |-> de.loc,
         val |-> [f EXCEPT !.deprecated = TRUE]]))))))

\* ZeroOrMore(tag): matched is FALSE until a tag has matched, and a
\* repetition that matched nothing has still skipped the blanks before it
RECURSIVE tags(_, _, _, _)
tags(s, i, f, matched) ==
    OrElse(Then(tag(s, i, f), LAMBDA t : tags(s, t.loc, t.val, TRUE)),
           [ok |-> TRUE, loc |-> IF matched THEN i ELSE PreParse(s, i),
            val |-> f])

\* annotation = Opt(summary) + ZeroOrMore(tag) + Suppress(ZeroOrMore(White())),
\* parsed with parseAll=True: the whole text must have been read
annotation(s, name) ==
    With(summary(s, PreParse(s, 1)), LAMBDA su :
    With(tags(s, IF su.ok THEN su.loc ELSE PreParse(s, 1),
              IF su.ok THEN [EmptyFunc(name) EXCEPT !.summary = su.val]
              ELSE EmptyFunc(name),
              FALSE), LAMBDA ts :
        IF SkipChars(s, ts.loc, WhiteChars) >= Len(s) + 1
        THEN [ok |-> TRUE, val |-> ts.val] ELSE Fail))

\* "".join(line[3:] for line in lines)
RECURSIVE StripJoin(_)
StripJoin(lines) ==
    IF lines = <<>> THEN ""
    ELSE From(Head(lines), 4) \o StripJoin(Tail(lines))

\* LuaFunc.parse_annotation: the function, or the exception raised
parse_annotation(name, lines) ==
    With(annotation(StripJoin(lines), name), LAMBDA p :
        IF p.ok THEN [ok |-> TRUE, func |-> p.val]
        ELSE [ok |-> FALSE, error |-> "Error parsing " \o name])

(***************************************************************************)
(* String helpers of the renderers (Python's str methods)                  *)
(***************************************************************************)

Max(a, b) == IF a >= b THEN a ELSE b

Min(a, b) == IF a <= b THEN a ELSE b

\* n * ch
RECURSIVE Repeat(_, _)
Repeat(ch, n) == IF n <= 0 THEN "" ELSE ch \o Repeat(ch, n - 1)

\* s.ljust(n)
ljust(s, n) == s \o Repeat(" ", n - Len(s))

\* sep.join(seq)
RECURSIVE Join(_, _)
Join(seq, sep) ==
    IF seq = <<>> THEN ""
    ELSE IF Len(seq) = 1 THEN seq[1]
    ELSE seq[1] \o sep \o Join(Tail(seq), sep)

\* s.count(ch) for a single character
RECURSIVE count(_, _)
count(s, ch) ==
    IF s = "" THEN 0
    ELSE (IF Head(s) = ch THEN 1 ELSE 0) + count(Tail(s), ch)

\* s.replace(old, new) for a single character old
RECURSIVE replace(_, _, _)
replace(s, old, new) ==
    IF s = "" THEN ""
    ELSE (IF Head(s) = old THEN new ELSE Head(s)) \o replace(Tail(s), old, new)

\* What str.strip and textwrap take for whitespace
SpaceChars == {" ", "\t", "\n", "\r", "\f"}

\* s.lstrip()
lstrip(s) == From(s, SkipChars(s, 1, SpaceChars))

\* s.rstrip()
RECURSIVE rstrip(_)
rstrip(s) ==
    IF s # "" /\ Ch(s, Len(s)) \in SpaceChars
    THEN rstrip(SubSeq(s, 1, Len(s) - 1))
    ELSE s

\* s.splitlines(), for "\n" line breaks
RECURSIVE splitlines(_)
splitlines(s) ==
    IF s = "" THEN <<>>
    ELSE LET j == LineRest(s, 1)
         IN  <<SubSeq(s, 1, j - 1)>> \o splitlines(From(s, j + 1))

\* The sequences of a sequence, one behind the other
RECURSIVE Flatten(_)
Flatten(seqs) == IF seqs = <<>> THEN <<>> ELSE Head(seqs) \o Flatten(Tail(seqs))

(***************************************************************************)
(* util.py                                                                 *)
(***************************************************************************)

\* data.get(col, "")
Cell(row, col) == IF col \in DOMAIN row THEN row[col] ELSE ""

\* format_md_table_row (the same in util.py and markdown.py)
format_md_table_row(data, column_names, max_widths) ==
    "| "
    \o Join([k \in 1 .. Len(column_names) |->
                ljust(Cell(data, column_names[k]), max_widths[column_names[k]])],
            " | ")
    \o " |\n"

\* The widest cell of a column, and at least least
RECURSIVE ColumnWidth(_, _, _)
ColumnWidth(rows, col, least) ==
    IF rows = <<>> THEN least
    ELSE ColumnWidth(Tail(rows), col, Max(least, Len(Cell(Head(rows), col))))

\* The title line, the separator line and the rows of a table
TableLines(rows, column_names, max_widths) ==
    <<"| "
      \o Join([k \in 1 .. Len(column_names) |->
                  ljust(column_names[k], max_widths[column_names[k]])], " | ")
      \o " |\n",
      "| "
      \o Join([k \in 1 .. Len(column_names) |->
                  Repeat("-", max_widths[column_names[k]])], " | ")
      \o " |\n">>
    \o [k \in 1 .. Len(rows) |->
           format_md_table_row(rows[k], column_names, max_widths)]

\* The names of a sequence of columns
Columns(column_names) == {column_names[k] : k \in 1 .. Len(column_names)}

\* util.format_md_table: a column is as wide as its widest cell, at least 1
util_format_md_table(rows, column_names) ==
    TableLines(rows, column_names,
               [col \in Columns(column_names) |-> ColumnWidth(rows, col, 1)])

\* The backquote, which a string of this module cannot hold: it is written ~,
\* a character that no text of the model contains
Backquote == "~"

\* vimlen: the length without the pairs of backquotes, | and *
vimlen(string) ==
    Len(string) - 2 * (count(string, Backquote) \div 2)
                - 2 * (count(string, "|") \div 2)
                - 2 * (count(string, "*") \div 2)

\* The default width of leftright and wrap
Width == 80

\* leftright(left, right)
leftright(left, right) ==
    left \o Repeat(" ", Max(1, Width - vimlen(left) - vimlen(right)))
         \o right \o "\n"

\* The location behind the chunk of t at i: a run of blanks or a word
ChunkEnd(t, i) ==
    IF Ch(t, i) = " " THEN SkipChars(t, i, {" "})
    ELSE SkipChars(t, i, {Ch(t, k) : k \in i .. Len(t)} \ {" "})

\* The location behind the chunks from i on that fit in room characters
\* counted from start
RECURSIVE FillLine(_, _, _, _)
FillLine(t, start, i, room) ==
    IF i <= Len(t) /\ ChunkEnd(t, i) - start <= room
    THEN FillLine(t, start, ChunkEnd(t, i), room)
    ELSE i

\* textwrap.wrap's lines of the text t from i on. A line takes the chunks
\* that fit; of a chunk longer than a whole line it takes what still fits
\* (_handle_long_word); its last chunk is dropped when blank or empty; a
\* line drops the blanks it would begin with, unless no line came before it
RECURSIVE WrapFrom(_, _, _, _, _)
WrapFrom(t, i, first, initial, subsequent) ==
    LET ind   == IF first THEN initial ELSE subsequent
        room  == Width - ind
        start == IF ~first /\ Ch(t, i) = " " THEN ChunkEnd(t, i) ELSE i
        fill  == FillLine(t, start, start, room)
        long  == fill <= Len(t) /\ ChunkEnd(t, fill) - fill > room
        space_left == IF room < 1 THEN 1 ELSE room - (fill - start)
        end   == IF long THEN Min(fill + space_left, ChunkEnd(t, fill)) ELSE fill
        text  == IF ~long THEN rstrip(SubSeq(t, start, end - 1))
                 ELSE IF space_left = 0 \/ Ch(t, fill) = " "
                      THEN SubSeq(t, start, fill - 1)
                 ELSE SubSeq(t, start, end - 1)
    IN  IF start > Len(t) THEN <<>>
        ELSE (IF text = "" THEN <<>> ELSE <<Repeat(" ", ind) \o text>>)
             \o WrapFrom(t, end, first /\ text = "", initial, subsequent)

\* textwrap's replace_whitespace
RECURSIVE BlankOut(_)
BlankOut(s) ==
    IF s = "" THEN ""
    ELSE (IF Head(s) \in SpaceChars THEN " " ELSE Head(s)) \o BlankOut(Tail(s))

\* wrap(text, indent, sub_indent=sub_indent): the wrapped lines, each with
\* its line end
wrap(text, indent, sub_indent) ==
    LET ls == WrapFrom(BlankOut(text), 1, TRUE, indent, sub_indent)
    IN  [k \in 1 .. Len(ls) |-> ls[k] \o "\n"]

\* indent(lines, amount) for an amount >= 0
indent(lines, amount) ==
    [k \in 1 .. Len(lines) |->
        Repeat(" ", amount)
        \o (IF Ch(lines[k], Len(lines[k])) = "\n" THEN lines[k]
            ELSE lines[k] \o "\n")]

(***************************************************************************)
(* apidoc.py: the renderers                                                *)
(***************************************************************************)

\* A filter that lets deprecated functions through (excluded by
\* HiddenFunctionsSkipped)
HiddenIfPrivate(func) == func.private

\* A FunctionDoc that the renderers pass over
Hidden(func) == func.private \/ func.deprecated

\* The names of the params, each between open and close
ParamNames(params, open, close) ==
    [k \in 1 .. Len(params) |-> open \o params[k].name \o close]

\* ", ".join([r.type for r in func.returns])
ReturnTypes(returns) == Join([k \in 1 .. Len(returns) |-> returns[k].type], ", ")

\* any([r.desc for r in func.returns])
AnyReturnDesc(returns) == \E k \in 1 .. Len(returns) : returns[k].desc # ""

\* ftype: the type with every | escaped
EscapeType(type) == replace(type, "|", "\\|")

\* The table row of a param
ParamRow(param) ==
    [col \in {"Param", "Type", "Desc"} |->
        CASE col = "Param" -> param.name
          [] col = "Type"  -> Backquote \o EscapeType(param.type) \o Backquote
          [] col = "Desc"  -> param.desc]

\* The table row of a sub-parameter
SubparamRow(subp) ==
    [col \in {"Type", "Desc", ""} |->
        CASE col = "Type" -> subp.name
          [] col = "Desc" -> Backquote \o EscapeType(subp.type) \o Backquote
          [] col = ""     -> subp.desc]

\* The rows of the params table: each param, followed by its sub-parameters
ParamRows(params) ==
    Flatten([k \in 1 .. Len(params) |->
        <<ParamRow(params[k])>>
        \o [j \in 1 .. Len(params[k].subparams) |->
               SubparamRow(params[k].subparams[j])]])

\* any_subparams
AnySubparams(params) == \E k \in 1 .. Len(params) : params[k].subparams # <<>>

\* cols of the params table
ParamCols(params) ==
    <<"Param", "Type", "Desc">> \o (IF AnySubparams(params) THEN <<"">> ELSE <<>>)

\* The note and the example of a function, in Markdown
NoteAndExample(func) ==
    (IF func.note # ""
     THEN <<"\n", "**Note:**\n", "<pre>\n", func.note, "</pre>\n">> ELSE <<>>)
    \o (IF func.example # ""
        THEN <<"\n", "**Examples:**\n",
               Backquote \o Backquote \o Backquote \o "lua\n", func.example,
               Backquote \o Backquote \o Backquote \o "\n">>
        ELSE <<>>)

\* render_api_md: the lines of one function that is not hidden
render_api_md(func) ==
    <<"### " \o func.name \o "(" \o Join(ParamNames(func.params, "", ""), ", ")
             \o ")\n",
      "\n", func.summary, "\n">>
    \o (IF func.params # <<>>
        THEN util_format_md_table(ParamRows(func.params), ParamCols(func.params))
        ELSE <<>>)
    \o NoteAndExample(func)
    \o <<"\n">>

\* The description of a param or return after its line: wrapped, the first
\* line joined to line; without a description, line alone
Described(line, desc, sub_indent) ==
    LET d == wrap(desc, Len(line), sub_indent)
    IN  IF d # <<>> THEN <<line \o lstrip(d[1])>> \o Tail(d)
        ELSE <<rstrip(line) \o "\n">>

\* format_returns
format_returns(returns, ind) ==
    Flatten([k \in 1 .. Len(returns) |->
        LET prefix == Repeat(" ", ind)
            line   == prefix \o Backquote \o returns[k].type \o Backquote \o " "
        IN  Described(line, returns[k].desc, Min(Len(prefix), ind + 2))])

\* The longest length of the names of at most 16 characters (Python raises
\* ValueError when there is none: the names of the model are short)
LongestName(params) ==
    LET lens == {Len(params[k].name) : k \in 1 .. Len(params)} \cap 0 .. 16
    IN  CHOOSE n \in lens : \A m \in lens : m <= n

\* format_params
RECURSIVE format_params(_, _)
format_params(params, ind) ==
    LET max_param == LongestName(params) + 1
    IN  Flatten([k \in 1 .. Len(params) |->
            LET param  == params[k]
                prefix == Repeat(" ", ind) \o "{" \o param.name
                          \o ljust("}", max_param - Len(param.name)) \o " "
                line   == prefix \o Backquote \o param.type \o Backquote \o " "
            IN  Described(line, param.desc, Min(Len(prefix), max_param + ind + 2))
                \o (IF param.subparams # <<>>
                    THEN format_params(param.subparams, 10) ELSE <<>>)])

\* render_api_vimdoc: the lines of one function that is not hidden
render_api_vimdoc(project, func) ==
    LET args == Join(ParamNames(func.params, "{", "}"), ", ")
        signature == func.name \o "(" \o args \o ")"
                     \o (IF func.returns # <<>>
                         THEN ": " \o ReturnTypes(func.returns) ELSE "")
    IN  <<leftright(signature, "*" \o project \o "." \o func.name \o "*")>>
        \o wrap(func.summary, 4, 4)
        \o <<"\n">>
        \o (IF func.params # <<>>
            THEN <<"    Parameters:\n">> \o format_params(func.params, 6)
            ELSE <<>>)
        \o (IF AnyReturnDesc(func.returns)
            THEN <<"    Returns:\n">> \o format_returns(func.returns, 6)
            ELSE <<>>)
        \o (IF func.note # ""
            THEN <<"\n", "    Note:\n">> \o indent(splitlines(func.note), 6)
            ELSE <<>>)
        \o (IF func.example # ""
            THEN <<"\n", "    Examples: >\n">>
                 \o indent(splitlines(func.example), 6) \o <<"<\n">>
            ELSE <<>>)
        \o <<"\n">>

(***************************************************************************)
(* markdown.py                                                             *)
(***************************************************************************)

\* markdown.format_md_table: a column is as wide as its widest cell and its
\* title, at least 3
format_md_table(rows, column_names) ==
    TableLines(rows, column_names,
               [col \in Columns(column_names) |->
                   ColumnWidth(rows, col, Max(3, Len(col)))])

\* The level of render_md_api's headings when the caller gives none
DefaultLevel == 3

\* The rows of the Returns table
ReturnRows(returns) ==
    [k \in 1 .. Len(returns) |->
        [col \in {"Type", "Desc"} |->
            IF col = "Type" THEN returns[k].type ELSE returns[k].desc]]

\* render_md_api, up to the params table: the lines of one function that is
\* not hidden
render_md_api_params(func, level) ==
    LET signature == func.name \o "("
                     \o Join(ParamNames(func.params, "", ""), ", ") \o ")"
    IN  <<Repeat("#", level) \o " " \o signature \o "\n",
          "\n",
          Backquote \o signature
          \o (IF func.returns # <<>>
              THEN ": " \o ReturnTypes(func.returns) ELSE "")
          \o Backquote>>
        \o (IF func.summary # ""
            THEN <<" \\\n", func.summary, "\n\n">> ELSE <<"\n\n">>)
        \o (IF func.params # <<>>
            THEN format_md_table(ParamRows(func.params), ParamCols(func.params))
            ELSE <<>>)

\* render_md_api, from the Returns table on
render_md_api_returns(func) ==
    (IF AnyReturnDesc(func.returns)
     THEN <<"\n", "Returns:\n">>
          \o format_md_table(ReturnRows(func.returns), <<"Type", "Desc">>)
     ELSE <<>>)
    \o NoteAndExample(func)
    \o <<"\n">>

(***************************************************************************)
(* apidoc.py: parse_functions                                              *)
(***************************************************************************)

\* A pattern that every line matches, the name being the word behind its
\* first two characters (excluded by OnlyBeforeDeclaration)
MatchEveryLine(line) ==
    [ok |-> TRUE, name |-> SubSeq(line, 3, SkipChars(line, 3, WordChars) - 1)]

\* FN_RE.match(line): "M." at the start of the line, a word, blanks, "="
FN_RE(line) ==
    LET j == SkipChars(line, 3, WordChars)
        k == SkipChars(line, j, SpaceChars)
    IN  IF StartsWith(line, 1, "M.") /\ j > 3 /\ Ch(line, k) = "="
        THEN [ok |-> TRUE, name |-> SubSeq(line, 3, j - 1)]
        ELSE [ok |-> FALSE, name |-> ""]

\* line.startswith("---")
IsComment(line) == StartsWith(line, 1, "---")

\* A chunk that only a declaration empties (excluded by ChunkIsRunBefore)
KeepUnlessDeclared(line, c) ==
    IF IsComment(line) THEN Append(c, line)
    ELSE IF FN_RE(line).ok THEN <<>> ELSE c

\* chunk after the line: a comment joins it, any other line empties it
pending(line, c) == IF IsComment(line) THEN Append(c, line) ELSE <<>>

\* A parse_functions that passes over a block that does not parse (excluded
\* by FailurePropagates)
SkipFailedBlock(line, c, fs) ==
    IF IsComment(line) \/ c = <<>> \/ ~FN_RE(line).ok
       \/ ~parse_annotation(FN_RE(line).name, c).ok
    THEN [raised |-> FALSE, funcs |-> fs, error |-> ""]
    ELSE [raised |-> FALSE, error |-> "",
          funcs |-> Append(fs, parse_annotation(FN_RE(line).name, c).func)]

\* A parse_functions that puts a function before those read earlier
\* (excluded by SourceOrder)
PrependFunc(line, c, fs) ==
    IF IsComment(line) \/ c = <<>> \/ ~FN_RE(line).ok
    THEN [raised |-> FALSE, funcs |-> fs, error |-> ""]
    ELSE IF parse_annotation(FN_RE(line).name, c).ok
    THEN [raised |-> FALSE, error |-> "",
          funcs |-> <<parse_annotation(FN_RE(line).name, c).func>> \o fs]
    ELSE [raised |-> TRUE, funcs |-> fs,
          error |-> parse_annotation(FN_RE(line).name, c).error]

\* funcs after the line: a line that is no comment and follows a chunk is
\* matched with FN_RE, and on a match the chunk is parsed and its function
\* appended, or the exception of parse_annotation leaves parse_functions
parse_block(line, c, fs) ==
    IF IsComment(line) \/ c = <<>>
    THEN [raised |-> FALSE, funcs |-> fs, error |-> ""]
    ELSE With(FN_RE(line), LAMBDA m :
         IF ~m.ok THEN [raised |-> FALSE, funcs |-> fs, error |-> ""]
         ELSE With(parse_annotation(m.name, c), LAMBDA p :
              IF p.ok
              THEN [raised |-> FALSE, funcs |-> Append(fs, p.func), error |-> ""]
              ELSE [raised |-> TRUE, funcs |-> fs, error |-> p.error]))

(***************************************************************************)
(* The state: a file is read line by line by parse_functions, and the      *)
(* list it returns is handed to one of the renderers                       *)
(***************************************************************************)

VARIABLES
    read,    \* the lines of the file that parse_functions has read
    chunk,   \* parse_functions: the pending comment lines
    funcs,   \* parse_functions: the list built so far
    pc,      \* "scan", "returned", "raised"; "render", "render_returns",
             \* "rendered" in a renderer
    result,  \* what parse_functions gave its caller: a list or an exception
    call,    \* the renderer called and its arguments
    ri,      \* the renderer's place in its funcs
    out,     \* the renderer's lines
    rows,    \* the renderer's rows of the table built last
    ty,      \* a type expression, as written in an annotation
    members, \* the types that ty joins with |, as written
    made,    \* how many times ty has been put into a larger type
    canon,   \* what lua_type has made of ty, and then of that
    file,            \* replace_section: the lines of the file on disk
    original,        \* the lines of the file when replace_section began
    section,         \* the arguments start_pat, end_pat and lines
    at,              \* how many lines of the file the loop has read
    prefix_lines,    \* replace_section's local variables
    postfix_lines,
    file_lines,      \* "prefix" or "postfix": the list file_lines names
    inside_section,
    found_section,
    spc      \* "edit", "scan", "written", "raised" in replace_section

\* The state of parse_functions and of the renderers
pvars == <<read, chunk, funcs, pc, result, call, ri, out, rows>>

\* The state of a type expression
tvars == <<ty, members, made, canon>>

\* The state of replace_section
svars == <<file, original, section, at, prefix_lines, postfix_lines,
           file_lines, inside_section, found_section, spc>>

\* What parse_functions and the renderers leave alone
others == <<tvars, svars>>

vars == <<pvars, tvars, svars>>

\* No replace_section has been called yet
NoSection == [start_pat |-> "", end_pat |-> "", lines |-> <<>>]

\* Nothing has been returned or called yet
NoResult == [kind |-> "none", funcs |-> <<>>, message |-> ""]

NoCall == [renderer |-> "none", project |-> "", level |-> 0]

\* The project names given to render_api_vimdoc
Projects == {"oil"}

\* The calls of the renderers
Calls ==
    {[renderer |-> "render_api_md", project |-> "", level |-> 0],
     [renderer |-> "render_md_api", project |-> "", level |-> DefaultLevel]}
    \cup {[renderer |-> "render_api_vimdoc", project |-> p, level |-> 0] :
             p \in Projects}

Init ==
    /\ read = <<>>
    /\ chunk = <<>>
    /\ funcs = <<>>
    /\ pc = "scan"
    /\ result = NoResult
    /\ call = NoCall
    /\ ri = 0
    /\ out = <<>>
    /\ rows = <<>>
    /\ ty = ""
    /\ members = <<>>
    /\ made = 0
    /\ canon = <<>>
    /\ file = ""
    /\ original = ""
    /\ section = NoSection
    /\ at = 0
    /\ prefix_lines = <<>>
    /\ postfix_lines = <<>>
    /\ file_lines = "prefix"
    /\ inside_section = FALSE
    /\ found_section = FALSE
    /\ spc = "edit"

\* One pass of the loop of parse_functions, for the next line of the file
ReadLine(line) ==
    /\ pc = "scan"
    /\ read' = Append(read, line)
    /\ With(parse_block(line, chunk, funcs), LAMBDA r :
           IF r.raised
           THEN /\ pc' = "raised"
                /\ result' = [kind |-> "exception", funcs |-> <<>>,
                              message |-> r.error]
                /\ UNCHANGED <<chunk, funcs>>
           ELSE /\ chunk' = pending(line, chunk)
                /\ funcs' = r.funcs
                /\ UNCHANGED <<pc, result>>)
    /\ UNCHANGED <<call, ri, out, rows>>
    /\ UNCHANGED others

\* The file has no more lines: parse_functions returns funcs
EndOfFile ==
    /\ pc = "scan"
    /\ pc' = "returned"
    /\ result' = [kind |-> "list", funcs |-> funcs, message |-> ""]
    /\ UNCHANGED <<read, chunk, funcs, call, ri, out, rows>>
    /\ UNCHANGED others

\* The caller hands the list to a renderer
CallRenderer ==
    /\ pc = "returned"
    /\ \E c \in Calls : call' = c
    /\ pc' = "render"
    /\ ri' = 1
    /\ out' = <<>>
    /\ rows' = <<>>
    /\ UNCHANGED <<read, chunk, funcs, result>>
    /\ UNCHANGED others

\* One pass of the loop of render_api_md
RenderApiMd ==
    /\ pc = "render"
    /\ call.renderer = "render_api_md"
    /\ ri <= Len(result.funcs)
    /\ LET func == result.funcs[ri]
       IN  /\ out' = IF Hidden(func) THEN out ELSE out \o render_api_md(func)
           /\ rows' = IF Hidden(func) \/ func.params = <<>> THEN rows
                      ELSE ParamRows(func.params)
    /\ ri' = ri + 1
    /\ UNCHANGED <<read, chunk, funcs, pc, result, call>>
    /\ UNCHANGED others

\* One pass of the loop of render_api_vimdoc
RenderApiVimdoc ==
    /\ pc = "render"
    /\ call.renderer = "render_api_vimdoc"
    /\ ri <= Len(result.funcs)
    /\ LET func == result.funcs[ri]
       IN  out' = IF Hidden(func) THEN out
                  ELSE out \o render_api_vimdoc(call.project, func)
    /\ ri' = ri + 1
    /\ UNCHANGED <<read, chunk, funcs, pc, result, call, rows>>
    /\ UNCHANGED others

\* One pass of the loop of render_md_api, up to the params table; a hidden
\* function ends the pass
RenderMdApiParams ==
    /\ pc = "render"
    /\ call.renderer = "render_md_api"
    /\ ri <= Len(result.funcs)
    /\ LET func == result.funcs[ri]
       IN  IF Hidden(func)
           THEN /\ ri' = ri + 1
                /\ UNCHANGED <<pc, out, rows>>
           ELSE /\ out' = out \o render_md_api_params(func, call.level)
                /\ rows' = IF func.params = <<>> THEN rows
                           ELSE ParamRows(func.params)
                /\ pc' = "render_returns"
                /\ UNCHANGED ri
    /\ UNCHANGED <<read, chunk, funcs, result, call>>
    /\ UNCHANGED others

\* The rest of the pass of render_md_api, from the Returns table on
RenderMdApiReturns ==
    /\ pc = "render_returns"
    /\ LET func == result.funcs[ri]
       IN  /\ out' = out \o render_md_api_returns(func)
           /\ rows' = IF AnyReturnDesc(func.returns)
                      THEN ReturnRows(func.returns) ELSE rows
    /\ ri' = ri + 1
    /\ pc' = "render"
    /\ UNCHANGED <<read, chunk, funcs, result, call>>
    /\ UNCHANGED others

\* The renderer returns its lines
RenderReturn ==
    /\ pc = "render"
    /\ ri > Len(result.funcs)
    /\ pc' = "rendered"
    /\ UNCHANGED <<read, chunk, funcs, result, call, ri, out, rows>>
    /\ UNCHANGED others

\* The renderers
Render ==
    \/ CallRenderer
    \/ RenderApiMd
    \/ RenderApiVimdoc
    \/ RenderMdApiParams
    \/ RenderMdApiReturns
    \/ RenderReturn

(***************************************************************************)
(* Files: comment blocks, declarations and other lines in any order        *)
(***************************************************************************)

\* The comment lines of the files
FileComments ==
    {"---@param x string|nil The x\n", "---@private\n", "---@deprecated\n",
     "---@param x\n"}

\* The declarations of the files
FileDecls == {"M.foo = function()\n", "M.bar= {}\n"}

\* The other lines of the files
FileOthers == {" M.baz = 1\n", "\n"}

\* The longest file, in lines
MaxLines == 4

\* parse_functions reads one more line of a file
ReadFileLine ==
    /\ Len(read) < MaxLines
    /\ \E line \in FileComments \cup FileDecls \cup FileOthers : ReadLine(line)

Next == ReadFileLine \/ EndOfFile \/ Render

Spec == Init /\ [][Next]_vars

(***************************************************************************)
(* Blocks: one comment block, then a declaration                           *)
(***************************************************************************)

\* The comment lines of the blocks
BlockComments ==
    {"---@param opts table Options\n", "--- a string|nil sub\n",
     "---@return string|nil res\n", "---@private\n", "---@deprecated\n",
     "---\n", "---Summary line\n",
     "---@param x string|\n", "---@param x table<string>\n"}

\* The declaration behind the block
BlockDecl == "M.foo = function()\n"

\* The longest block, in lines
MaxChunk == 3

\* parse_functions reads one more comment line of the block
ReadBlockLine ==
    /\ Len(read) = Len(chunk)
    /\ Len(chunk) < MaxChunk
    /\ \E line \in BlockComments : ReadLine(line)

\* parse_functions reads the declaration behind the block
ReadBlockDecl ==
    /\ Len(read) = Len(chunk)
    /\ chunk # <<>>
    /\ ReadLine(BlockDecl)

NextBlock == ReadBlockLine \/ ReadBlockDecl \/ EndOfFile \/ Render

SpecBlock == Init /\ [][NextBlock]_vars

(***************************************************************************)
(* What the properties speak of                                            *)
(***************************************************************************)

\* The name that a declaration line declares
Declared ==
    [l \in FileDecls |-> IF l = "M.foo = function()\n" THEN "foo" ELSE "bar"]

\* Where the comment run directly before line k of lines begins (k itself
\* when line k - 1 is no comment)
RunStart(lines, k) ==
    CHOOSE j \in 1 .. k :
        /\ \A m \in j .. k - 1 : IsComment(lines[m])
        /\ j > 1 => ~IsComment(lines[j - 1])

\* The maximal run of comment lines directly before line k of lines
RunBefore(lines, k) == SubSeq(lines, RunStart(lines, k), k - 1)

\* Line k of lines is a declaration directly behind a comment run
Documented(lines, k) ==
    k > 1 /\ lines[k] \in FileDecls /\ IsComment(lines[k - 1])

\* The names of the documented declarations of lines from line k on
RECURSIVE DocumentedNames(_, _)
DocumentedNames(lines, k) ==
    IF k > Len(lines) THEN <<>>
    ELSE (IF Documented(lines, k) THEN <<Declared[lines[k]]>> ELSE <<>>)
         \o DocumentedNames(lines, k + 1)

\* The name fields of a sequence of records
Names(fs) == [k \in 1 .. Len(fs) |-> fs[k].name]

\* The lines of the documented declarations of lines from line k on
RECURSIVE DocumentedLines(_, _)
DocumentedLines(lines, k) ==
    IF k > Len(lines) THEN <<>>
    ELSE (IF Documented(lines, k) THEN <<k>> ELSE <<>>)
         \o DocumentedLines(lines, k + 1)

\* The functions that are rendered
Visible(fs) == SelectSeq(fs, LAMBDA f : ~f.private /\ ~f.deprecated)

\* What renderer c makes of one function
RenderedOf(c, func) ==
    CASE c.renderer = "render_api_md" -> render_api_md(func)
      [] c.renderer = "render_api_vimdoc" -> render_api_vimdoc(c.project, func)
      [] c.renderer = "render_md_api" ->
             render_md_api_params(func, c.level) \o render_md_api_returns(func)

\* What renderer c makes of the visible functions of fs, one after the other
RenderedAll(c, fs) ==
    Flatten([k \in 1 .. Len(Visible(fs)) |-> RenderedOf(c, Visible(fs)[k])])

(***************************************************************************)
(* parse_functions                                                         *)
(***************************************************************************)

\* C1: a function is added to funcs only in the pass that reads a
\* declaration line directly behind a comment run, and it is one function;
\* a run followed by another line, or by the end of the file, adds nothing;
\* and every declaration behind a run whose block parses adds its function,
\* whatever runs were dropped before.
OnlyBeforeDeclaration ==
    [][/\ funcs' # funcs =>
            /\ chunk # <<>>
            /\ \E l \in FileDecls : read' = Append(read, l)
            /\ Len(funcs') = Len(funcs) + 1
            /\ SubSeq(funcs', 1, Len(funcs)) = funcs
       /\ \A l \in FileDecls :
            (chunk # <<>> /\ read' = Append(read, l) /\ pc' = "scan")
                => Len(funcs') = Len(funcs) + 1]_vars

\* A run is dropped before another line, and the next run, which is
\* followed by a declaration, gives the one function
DroppedRunThenFunction ==
    /\ Len(read) = 4
    /\ IsComment(read[1]) /\ read[2] \in FileOthers
    /\ IsComment(read[3]) /\ read[4] \in FileDecls
    /\ Len(funcs) = 1

\* C2: while the file is read, chunk is the maximal run of comment lines
\* directly before the next line, so it is empty behind every line that is
\* no comment; and every function of funcs is what the parser makes of the
\* maximal run directly before its declaration.
ChunkIsRunBefore ==
    pc = "scan" =>
        /\ chunk = RunBefore(read, Len(read) + 1)
        /\ \A k \in 1 .. Len(funcs) :
             LET d == DocumentedLines(read, 1)[k]
             IN  funcs[k] =
                 parse_annotation(Declared[read[d]], RunBefore(read, d)).func

\* A run that does not parse was dropped before another line, and the
\* declaration behind the next run has its function
EarlierRunNotParsed ==
    /\ Len(read) = 4
    /\ read[1] = "---@param x\n" /\ read[2] \in FileOthers
    /\ IsComment(read[3]) /\ read[4] \in FileDecls
    /\ Len(funcs) = 1 /\ chunk = <<>> /\ pc = "scan"

\* C3: parse_functions has raised exactly when the block of a documented
\* declaration of the lines read does not parse; then the exception names
\* that declaration, and the caller is given no list, whatever funcs held.
FailurePropagates ==
    LET bad == {k \in 1 .. Len(read) :
                   /\ Documented(read, k)
                   /\ ~parse_annotation(Declared[read[k]],
                                        RunBefore(read, k)).ok}
    IN  /\ (bad # {}) = (pc = "raised")
        /\ pc = "raised" =>
             /\ result.kind = "exception"
             /\ result.funcs = <<>>
             /\ bad = {Len(read)}
             /\ result.message = "Error parsing " \o Declared[read[Len(read)]]
        /\ result.kind = "list" => bad = {}

\* The second block of a file fails, the first having given a function
RaisedAfterValidBlock ==
    pc = "raised" /\ Len(funcs) = 1 /\ result.funcs = <<>>

\* C6: unless it raised, funcs holds one function per documented
\* declaration of the lines read, in the order of the declarations, and
\* that is the list returned.
SourceOrder ==
    pc # "raised" =>
        /\ Names(funcs) = DocumentedNames(read, 1)
        /\ result.kind = "list" => result.funcs = funcs

\* Two functions of different names have been returned
TwoFunctionsReturned ==
    /\ result.kind = "list"
    /\ Len(result.funcs) = 2
    /\ result.funcs[1].name # result.funcs[2].name

(***************************************************************************)
(* The renderers                                                           *)
(***************************************************************************)

\* C7: between two passes of its loop, and when it returns, a renderer's
\* lines are the lines of the functions passed that are neither private nor
\* deprecated, one function after the other in the order of the list, and
\* every such function has lines in every renderer.
HiddenFunctionsSkipped ==
    /\ pc = "render" => out = RenderedAll(call, SubSeq(result.funcs, 1, ri - 1))
    /\ pc = "rendered" => out = RenderedAll(call, result.funcs)
    /\ \A c \in Calls : \A k \in 1 .. Len(Visible(result.funcs)) :
           RenderedOf(c, Visible(result.funcs)[k]) # <<>>

\* A renderer has returned the lines of a list with a hidden function
\* before a visible one
RenderedAroundHidden ==
    /\ pc = "rendered"
    /\ Len(result.funcs) = 2
    /\ result.funcs[1].private \/ result.funcs[1].deprecated
    /\ Visible(result.funcs) = <<result.funcs[2]>>
    /\ out = RenderedOf(call, result.funcs[2])

\* A cell in which every | stands behind a backslash
RECURSIVE Escaped(_)
Escaped(cell) ==
    IF cell = "" THEN TRUE
    ELSE IF Head(cell) = "\\" THEN Escaped(Tail(Tail(cell)))
    ELSE Head(cell) # "|" /\ Escaped(Tail(cell))

\* The cell of a row that holds a type: a sub-parameter's row, which has the
\* column "", holds it under Desc, the other rows under Type
TypeCell(row) == IF "" \in DOMAIN row THEN row["Desc"] ELSE row["Type"]

\* C5: in every row of a table that a renderer has built, of params, of
\* sub-parameters and of returns, the cell of the type has every | escaped.
TypeCellsEscaped ==
    \A k \in 1 .. Len(rows) : Escaped(TypeCell(rows[k]))

(***************************************************************************)
(* The annotation grammar, on the block of the declaration read last       *)
(***************************************************************************)

\* The declaration read last is documented and its block has parsed
Parsed ==
    /\ pc # "raised"
    /\ read # <<>>
    /\ Documented(read, Len(read))
    /\ funcs # <<>>

\* Its block, and the function made of it
Block == RunBefore(read, Len(read))

Func == funcs[Len(funcs)]

\* The lines of a block that begin with a tag
TagLines(block, tagname) ==
    SelectSeq(block, LAMBDA l : StartsWith(l, 1, "---" \o tagname))

\* The lines with a type that is no type of the grammar: a union that ends
\* in |, a table type with one argument
MalformedTypes == {"---@param x string|\n", "---@param x table<string>\n"}

\* C4: a block with a line whose type is an unterminated union or a table
\* type without two arguments does not parse: reading its declaration
\* raises.
MalformedTypeRejected ==
    (/\ read # <<>>
     /\ Documented(read, Len(read))
     /\ \E k \in 1 .. Len(Block) : Block[k] \in MalformedTypes)
        => pc = "raised"

\* C8: params holds one entry per @param line of the block, in their order,
\* and returns one entry per @return line, in their order.
ParamsAndReturnsInOrder ==
    Parsed =>
        /\ Names(Func.params) =
             [k \in 1 .. Len(TagLines(Block, "@param")) |->
                 varname(TagLines(Block, "@param")[k], 11).val]
        /\ [k \in 1 .. Len(Func.returns) |-> Func.returns[k].type] =
             [k \in 1 .. Len(TagLines(Block, "@return")) |->
                 lua_type(TagLines(Block, "@return")[k], 11).val]

\* An indented line of the shape <name> <type> [desc]
IsSubLine(l) == Ch(l, 4) \in DefaultWhite /\ param_line(l, 5).ok

\* The lines of the @param tags of block from line k on
RECURSIVE ParamLines(_, _)
ParamLines(block, k) ==
    IF k > Len(block) THEN <<>>
    ELSE (IF StartsWith(block[k], 1, "---@param") THEN <<k>> ELSE <<>>)
         \o ParamLines(block, k + 1)

\* The number of indented lines directly behind line k of block
FollowingSubs(block, k) ==
    CHOOSE n \in 0 .. Len(block) - k :
        /\ \A m \in 1 .. n : IsSubLine(block[k + m])
        /\ k + n < Len(block) => ~IsSubLine(block[k + n + 1])

\* C9: every param has for subparams the indented lines directly behind its
\* @param line and no others, params has no entry but those of the @param
\* lines, and no sub-parameter has sub-parameters.
SubparamsDirectlyFollow ==
    Parsed =>
        /\ Len(Func.params) <= Len(ParamLines(Block, 1))
        /\ \A j \in 1 .. Len(Func.params) :
             /\ Len(Func.params[j].subparams) =
                    FollowingSubs(Block, ParamLines(Block, 1)[j])
             /\ \A m \in 1 .. Len(Func.params[j].subparams) :
                    Func.params[j].subparams[m].subparams = <<>>

\* C10: private is true exactly when the block has an @private line and
\* deprecated exactly when it has an @deprecated line, however often, and
\* a block of @private alone gives no params, no returns and no summary.
FlagsIffTagged ==
    Parsed =>
        /\ Func.private = (TagLines(Block, "@private") # <<>>)
        /\ Func.deprecated = (TagLines(Block, "@deprecated") # <<>>)
        /\ Block = <<"---@private\n">> =>
             Func.params = <<>> /\ Func.returns = <<>> /\ Func.summary = ""

(***************************************************************************)
(* Blocks with @example and @note, then a declaration                      *)
(***************************************************************************)

\* The comment lines of the blocks with examples and notes
ExampleComments ==
    {"---@example\n", "---@note\n", "--- a()\n", "--- b()\n", "---\n"}

\* The longest block with examples and notes, in lines
MaxExample == 5

\* parse_functions reads one more comment line of the block
ReadExampleLine ==
    /\ Len(read) = Len(chunk)
    /\ Len(chunk) < MaxExample
    /\ \E line \in ExampleComments : ReadLine(line)

NextExample == ReadExampleLine \/ ReadBlockDecl \/ EndOfFile

SpecExample == Init /\ [][NextExample]_vars

\* The last line of block that begins with a tag
LastTagLine(block, tagname) ==
    CHOOSE k \in 1 .. Len(block) :
        /\ StartsWith(block[k], 1, "---" \o tagname)
        /\ \A m \in k + 1 .. Len(block) :
               ~StartsWith(block[m], 1, "---" \o tagname)

\* What the parser makes of the block from the last line of a tag on: the
\* text of the last occurrence of the tag, read on its own
LastOccurrence(block, tagname) ==
    parse_annotation("foo",
        SubSeq(block, LastTagLine(block, tagname), Len(block)))

\* C11: when a block that parses has more than one @example line, example
\* is the text of the last of them alone, and likewise note for @note: the
\* texts of two occurrences are never merged into the field.
RepeatsNotMerged ==
    Parsed =>
        /\ Len(TagLines(Block, "@example")) >= 2 =>
             /\ LastOccurrence(Block, "@example").ok
             /\ Func.example = LastOccurrence(Block, "@example").func.example
        /\ Len(TagLines(Block, "@note")) >= 2 =>
             /\ LastOccurrence(Block, "@note").ok
             /\ Func.note = LastOccurrence(Block, "@note").func.note

(***************************************************************************)
(* Type expressions: written from primitive types, then read by lua_type   *)
(***************************************************************************)

\* What lua_type makes of a type expression that it reads to its end: the
\* string that LuaParam.type or LuaReturn.type holds
canonicalize(T) ==
    With(lua_type(T, 1), LAMBDA r :
        IF r.ok
        THEN (IF PreParse(T, r.loc) > Len(T)
              THEN [ok |-> TRUE, val |-> r.val]
              ELSE [ok |-> FALSE, val |-> ""])
        ELSE [ok |-> FALSE, val |-> ""])

\* The primitive types of the type expressions
Primitives == {"string", "integer", "nil"}

\* The whitespace written where the grammar allows it
Blanks == {"", " "}

\* How many times a type expression is put into a larger one
MaxMade == 2

\* A primitive type is written
WritePrimitive ==
    /\ ty = ""
    /\ \E p \in Primitives :
           /\ ty' = p
           /\ members' = <<p>>
    /\ UNCHANGED <<made, canon, pvars, svars>>

\* The type is joined with one more member
WriteUnion ==
    /\ ty # ""
    /\ canon = <<>>
    /\ made < MaxMade
    /\ \E p \in Primitives, w1 \in Blanks, w2 \in Blanks :
           /\ ty' = ty \o w1 \o "|" \o w2 \o p
           /\ members' = Append(members, p)
    /\ made' = made + 1
    /\ UNCHANGED <<canon, pvars, svars>>

\* The type becomes the key or the value of a table type
WriteTable ==
    /\ ty # ""
    /\ canon = <<>>
    /\ made < MaxMade
    /\ \E w \in Blanks, key \in BOOLEAN :
           /\ ty' = IF key THEN "table<" \o ty \o "," \o w \o "string>"
                    ELSE "table<string," \o w \o ty \o ">"
           /\ members' = <<ty'>>
    /\ made' = made + 1
    /\ UNCHANGED <<canon, pvars, svars>>

\* The type becomes the type of the parameter or of the return of a
\* function type
WriteFunc ==
    /\ ty # ""
    /\ canon = <<>>
    /\ made < MaxMade
    /\ \E w1 \in Blanks, w2 \in Blanks, w3 \in Blanks, ret \in BOOLEAN :
           /\ ty' = IF ret THEN "fun():" \o w1 \o ty
                    ELSE "fun(" \o w1 \o "a:" \o w2 \o ty \o w3 \o ")"
           /\ members' = <<ty'>>
    /\ made' = made + 1
    /\ UNCHANGED <<canon, pvars, svars>>

\* lua_type reads the type expression
Canonicalize ==
    /\ ty # ""
    /\ canon = <<>>
    /\ canon' = <<canonicalize(ty)>>
    /\ UNCHANGED <<ty, members, made, pvars, svars>>

\* lua_type reads what it made of the type expression
Recanonicalize ==
    /\ Len(canon) = 1
    /\ canon[1].ok
    /\ canon' = Append(canon, canonicalize(canon[1].val))
    /\ UNCHANGED <<ty, members, made, pvars, svars>>

NextType ==
    \/ WritePrimitive
    \/ WriteUnion
    \/ WriteTable
    \/ WriteFunc
    \/ Canonicalize
    \/ Recanonicalize

SpecType == Init /\ [][NextType]_vars

\* C12: what lua_type makes of a type expression that it accepts is
\* accepted again, and lua_type makes the same of it.
CanonicalIsFixed ==
    Len(canon) = 2 => canon[2].ok /\ canon[2].val = canon[1].val

\* A function type with blanks around its parameter, whose type is a table
\* type with a blank behind the comma, has been read twice, and the first
\* reading has changed it
ReadTwiceWithBlanks ==
    /\ ty = "fun( a: table<string, nil> )"
    /\ Len(canon) = 2
    /\ canon[1].val # ty

\* What lua_type makes of each of the types of a sequence
Canonicals(types) == [k \in 1 .. Len(types) |-> canonicalize(types[k]).val]

\* C13: what lua_type makes of a union is what it makes of the members, in
\* the order in which they were written, each of them once for each time it
\* was written, with one | and nothing else between two of them.
UnionKeepsMembers ==
    (canon # <<>> /\ canon[1].ok) =>
        canon[1].val = Join(Canonicals(members), "|")

\* The union string|integer|nil has been read and is unchanged, and so has
\* a union with blanks around a | and a member written twice
UnsortedUnionRead ==
    /\ canon # <<>>
    /\ \/ ty = "string|integer|nil" /\ canon[1].val = ty
       \/ ty = "nil | string|string" /\ canon[1].val = "nil|string|string"

(***************************************************************************)
(* util.py, replace_section: a file is written, then a section of it is    *)
(* replaced                                                                *)
(***************************************************************************)

\* Python's None, which is no pattern
None == "<None>"

\* The lines that iterating over a file with the text s gives, each with its
\* line break
RECURSIVE readlines(_)
readlines(s) ==
    IF s = "" THEN <<>>
    ELSE <<SubSeq(s, 1, Min(LineRest(s, 1), Len(s)))>>
         \o readlines(From(s, LineRest(s, 1) + 1))

\* re.match(pat, line), for a pattern without special characters
Match(pat, line) == StartsWith(line, 1, pat)

\* A pass that keeps the lines inside a section as well (excluded by
\* SectionReplaced)
KeepInsideLines(line, sec, st) ==
    IF st.inside_section
    THEN IF sec.end_pat # None /\ Match(sec.end_pat, line)
         THEN [st EXCEPT !.inside_section = FALSE, !.file_lines = "postfix",
                         !.postfix_lines = Append(@, line)]
         ELSE IF st.file_lines = "prefix"
              THEN [st EXCEPT !.prefix_lines = Append(@, line)]
              ELSE [st EXCEPT !.postfix_lines = Append(@, line)]
    ELSE [st EXCEPT
             !.inside_section = Match(sec.start_pat, line),
             !.found_section = @ \/ Match(sec.start_pat, line),
             !.prefix_lines =
                 IF st.file_lines = "prefix" THEN Append(@, line) ELSE @,
             !.postfix_lines =
                 IF st.file_lines = "postfix" THEN Append(@, line) ELSE @]

\* One pass of the loop of replace_section over a line, on the local
\* variables st
scan_line(line, sec, st) ==
    IF st.inside_section
    THEN IF sec.end_pat # None /\ Match(sec.end_pat, line)
         THEN [st EXCEPT !.inside_section = FALSE, !.file_lines = "postfix",
                         !.postfix_lines = Append(@, line)]
         ELSE st
    ELSE [st EXCEPT
             !.inside_section = Match(sec.start_pat, line),
             !.found_section = @ \/ Match(sec.start_pat, line),
             !.prefix_lines =
                 IF st.file_lines = "prefix" THEN Append(@, line) ELSE @,
             !.postfix_lines =
                 IF st.file_lines = "postfix" THEN Append(@, line) ELSE @]

\* A test that lets an open section through (excluded by
\* FailureLeavesFile)
RaiseIfNotFound(inside, found) == ~found

\* replace_section raises: inside_section or not found_section
must_raise(inside, found) == inside \/ ~found

\* The lines of the files; the last of them has no line break
SectionLines == {"# API\n", "# end\n", "text\n", "# API"}

\* The patterns of the sections
StartPats == {"# API", "#"}

EndPats == {"# end", "#", None}

\* The lines put in place of a section
NewLines == <<"new\n">>

\* The longest file, in lines
MaxFile == 5

\* One more line is written to the file, behind a line with a line break
WriteFile ==
    /\ spc = "edit"
    /\ Len(readlines(file)) < MaxFile
    /\ file = "" \/ Ch(file, Len(file)) = "\n"
    /\ \E line \in SectionLines : file' = file \o line
    /\ UNCHANGED <<original, section, at, prefix_lines, postfix_lines,
                   file_lines, inside_section, found_section, spc>>
    /\ UNCHANGED <<pvars, tvars>>

\* replace_section is called and opens the file for reading
CallReplaceSection ==
    /\ spc = "edit"
    /\ \E sp \in StartPats, ep \in EndPats :
           section' = [start_pat |-> sp, end_pat |-> ep, lines |-> NewLines]
    /\ original' = file
    /\ spc' = "scan"
    /\ UNCHANGED <<file, at, prefix_lines, postfix_lines, file_lines,
                   inside_section, found_section>>
    /\ UNCHANGED <<pvars, tvars>>

\* One pass of the loop of replace_section, over the next line of the file
ScanLine ==
    /\ spc = "scan"
    /\ at < Len(readlines(file))
    /\ With(scan_line(readlines(file)[at + 1], section,
                      [prefix_lines |-> prefix_lines,
                       postfix_lines |-> postfix_lines,
                       file_lines |-> file_lines,
                       inside_section |-> inside_section,
                       found_section |-> found_section]), LAMBDA st :
           /\ prefix_lines' = st.prefix_lines
           /\ postfix_lines' = st.postfix_lines
           /\ file_lines' = st.file_lines
           /\ inside_section' = st.inside_section
           /\ found_section' = st.found_section)
    /\ at' = at + 1
    /\ UNCHANGED <<file, original, section, spc>>
    /\ UNCHANGED <<pvars, tvars>>

\* The file has been read: replace_section raises, or it writes the file
EndScan ==
    /\ spc = "scan"
    /\ at = Len(readlines(file))
    /\ inside_section' = (inside_section /\ section.end_pat # None)
    /\ IF must_raise(inside_section /\ section.end_pat # None, found_section)
       THEN /\ spc' = "raised"
            /\ UNCHANGED file
       ELSE /\ spc' = "written"
            /\ file' = Join(prefix_lines \o section.lines \o postfix_lines, "")
    /\ UNCHANGED <<original, section, at, prefix_lines, postfix_lines,
                   file_lines, found_section>>
    /\ UNCHANGED <<pvars, tvars>>

NextSection == WriteFile \/ CallReplaceSection \/ ScanLine \/ EndScan

SpecSection == Init /\ [][NextSection]_vars

\* After line k of ls the scan is inside a section: a line that matches
\* start_pat has opened it and no line that matches end_pat has closed it
RECURSIVE Inside(_, _, _)
Inside(ls, sec, k) ==
    IF k = 0 THEN FALSE
    ELSE IF Inside(ls, sec, k - 1)
         THEN ~(sec.end_pat # None /\ Match(sec.end_pat, ls[k]))
         ELSE Match(sec.start_pat, ls[k])

\* C14: the file is as it was until replace_section writes it; and when no
\* line matches start_pat, or end_pat is given and the file ends inside a
\* section, the first or a later one, replace_section raises and the file
\* is as it was.
FailureLeavesFile ==
    /\ spc \in {"scan", "raised"} => file = original
    /\ spc \in {"written", "raised"} =>
         LET ls == readlines(original)
         IN  (\/ \A k \in 1 .. Len(ls) : ~Match(section.start_pat, ls[k])
              \/ section.end_pat # None /\ Inside(ls, section, Len(ls)))
                 => spc = "raised" /\ file = original

\* replace_section has raised on a file whose first section is closed and
\* whose later section is not
LaterSectionOpen ==
    /\ spc = "raised"
    /\ found_section
    /\ file_lines = "postfix"
    /\ file = original

\* The first line of ls that matches pat, behind line k
FirstMatch(ls, pat, k) ==
    CHOOSE j \in k + 1 .. Len(ls) :
        /\ Match(pat, ls[j])
        /\ \A m \in k + 1 .. j - 1 : ~Match(pat, ls[m])

\* The lines of ls from line j on that do not lie strictly between the line
\* that opens a section and the line that closes it
RECURSIVE KeptFrom(_, _, _)
KeptFrom(ls, sec, j) ==
    IF j > Len(ls) THEN <<>>
    ELSE (IF Inside(ls, sec, j - 1) /\ Inside(ls, sec, j) THEN <<>>
          ELSE <<ls[j]>>)
         \o KeptFrom(ls, sec, j + 1)

\* C15: the file that replace_section has written is the lines of the file
\* up to the first that matches start_pat, then lines, then the lines behind
\* it that do not lie strictly inside a section, the first of which is the
\* first line behind the start that matches end_pat; without an end_pat no
\* line behind the start is kept.
SectionReplaced ==
    spc = "written" =>
        LET ls == readlines(original)
            k1 == FirstMatch(ls, section.start_pat, 0)
            rest == KeptFrom(ls, section, k1 + 1)
        IN  /\ file = Join(SubSeq(ls, 1, k1) \o section.lines \o rest, "")
            /\ section.end_pat = None => rest = <<>>
            /\ section.end_pat # None =>
                 /\ rest # <<>>
                 /\ Head(rest) = ls[FirstMatch(ls, section.end_pat, k1)]

\* A file with an empty section and a later section of one line has been
\* written: the later section has lost its line and kept its two markers
LaterSectionEmptied ==
    /\ spc = "written"
    /\ section.start_pat = "# API"
    /\ section.end_pat = "# end"
    /\ original = "# API\n# end\n# API\ntext\n# end\n"
    /\ file = "# API\nnew\n# end\n# API\n# end\n"

=============================================================================
